---------------------------- MODULE Spec2Model ----------------------------
(***************************************************************************)
(* State machine of NewProjectPage (apps/web/src/app/new/page.tsx): the    *)
(* React state cells of the page, its event handlers, its dependency-      *)
(* tracked effects and the two asynchronous calls (catalog load, project   *)
(* creation).                                                              *)
(*                                                                         *)
(* Text the code only compares or tests for emptiness is a TLA+ string.    *)
(* Text whose characters the code inspects (version strings, which         *)
(* Array.prototype.sort orders by UTF-16 code unit; pack domains, ids and  *)
(* names, which it joins and collates; the model search query and the      *)
(* catalog fields it is matched against) is a tuple of one-character       *)
(* strings.  A JavaScript object with optional keys is a record whose      *)
(* DOMAIN holds the keys that are present.                                 *)
(***************************************************************************)
EXTENDS Integers, Sequences, FiniteSets, TLC

VARIABLES
    industries,             \* useState<any[]>([])                  line 18
    packs,                  \* useState<any[]>([])                  line 19
    err,                    \* string | null: <<>> is null, <<m>> is m
    name,                   \* useState("My AI System")
    description,            \* useState("")
    industryId,             \* useState<string>("")
    segmentId,              \* useState<string>("")
    useCaseId,              \* useState<string>("")
    answers,                \* Record<string, any>: a function on its keys
    selectedPacks,          \* Record<string, SelectedPack>, as the sequence
                            \* of its [key, val] entries in insertion order
    selectedLlms,           \* string[]
    deploymentEnvironment,  \* DeploymentEnvironment | ""
    llmQuery,               \* useState("")
    packDomainFilter,       \* useState<PackDomainFilter>("all")
    loadPending,            \* the load effect's Promise.all is unresolved
    effectDeps,             \* <<industryId, segmentId, useCaseId>> as of the
                            \* last commit whose effects have run
    calls,                  \* payloads of the unresolved createProject calls
    location,               \* window.location.href
    hist                    \* observer: the last event and the state before it

vars == <<industries, packs, err, name, description, industryId, segmentId,
          useCaseId, answers, selectedPacks, selectedLlms,
          deploymentEnvironment, llmQuery, packDomainFilter, loadPending,
          effectDeps, calls, location, hist>>

catalogVars == <<industries, packs, loadPending>>
textVars == <<name, description>>
hierVars == <<industryId, segmentId, useCaseId>>
llmVars == <<selectedLlms, llmQuery>>
packVars == <<selectedPacks, packDomainFilter>>
createVars == <<calls, location>>

-----------------------------------------------------------------------------
(* Bound of the model.                                                      *)

\* createProject calls that may be unresolved at once.
MaxCalls == 2

-----------------------------------------------------------------------------
(* Characters and strings.                                                  *)

\* The characters of the catalogs and inputs below, in ascending UTF-16
\* code unit order: a character's code is its place in this tuple.
Alphabet ==
    <<" ", ".", "/",
      "0", "1", "2", "3", "4", "5", "6", "7", "8", "9",
      "A", "B", "C", "D", "E", "F", "G", "H", "I", "J", "K", "L", "M",
      "N", "O", "P", "Q", "R", "S", "T", "U", "V", "W", "X", "Y", "Z",
      "a", "b", "c", "d", "e", "f", "g", "h", "i", "j", "k", "l", "m",
      "n", "o", "p", "q", "r", "s", "t", "u", "v", "w", "x", "y", "z">>

CharCode(c) == CHOOSE i \in 1..Len(Alphabet) : Alphabet[i] = c

UpperCase == {Alphabet[i] : i \in CharCode("A")..CharCode("Z")}

\* String.prototype.toLowerCase on one character.
LowerChar(c) ==
    IF c \in UpperCase
    THEN Alphabet[CharCode(c) + (CharCode("a") - CharCode("A"))]
    ELSE c

toLowerCase(s) == [i \in 1..Len(s) |-> LowerChar(s[i])]

RECURSIVE TrimStart(_)
TrimStart(s) ==
    IF s # <<>> /\ Head(s) = " " THEN TrimStart(Tail(s)) ELSE s

RECURSIVE TrimEnd(_)
TrimEnd(s) ==
    IF s # <<>> /\ s[Len(s)] = " " THEN TrimEnd(SubSeq(s, 1, Len(s) - 1)) ELSE s

\* String.prototype.trim
trim(s) == TrimEnd(TrimStart(s))

\* String.prototype.includes: q occurs in s at some offset.
includes(s, q) ==
    \E i \in 0..(Len(s) - Len(q)) : SubSeq(s, i + 1, i + Len(q)) = q

\* a < b in the order of Array.prototype.sort without a comparator: code
\* unit by code unit, a proper prefix first.
RECURSIVE StrLess(_, _)
StrLess(a, b) ==
    IF b = <<>> THEN FALSE
    ELSE IF a = <<>> THEN TRUE
    ELSE IF Head(a) # Head(b) THEN CharCode(Head(a)) < CharCode(Head(b))
    ELSE StrLess(Tail(a), Tail(b))

\* Insert x into the ascending sequence s, after the elements not above it.
RECURSIVE InsertSorted(_, _)
InsertSorted(s, x) ==
    IF s = <<>> THEN <<x>>
    ELSE IF StrLess(x, Head(s)) THEN <<x>> \o s
    ELSE <<Head(s)>> \o InsertSorted(Tail(s), x)

\* [...versions].sort()
RECURSIVE SortStrings(_)
SortStrings(s) ==
    IF s = <<>> THEN <<>>
    ELSE InsertSorted(SortStrings(SubSeq(s, 1, Len(s) - 1)), s[Len(s)])

latestVersionNumeric(versions) ==
    IF versions = <<>> THEN <<>>
    ELSE LET longest == CHOOSE v \in {versions[i] : i \in DOMAIN versions} :
                 \A w \in {versions[i] : i \in DOMAIN versions} :
                     \/ Len(w) < Len(v)
                     \/ Len(w) = Len(v) /\ ~StrLess(v, w)
         IN longest

\* function latestVersion(versions): the last of the sorted copy, or "" when
\* there is none (or it is the empty string).
latestVersion(versions) ==
    LET sorted == SortStrings(versions)
    IN IF sorted = <<>> THEN <<>>         \* slice(-1)[0] is undefined
       ELSE sorted[Len(sorted)]           \* ("" || "" is "" as well)

-----------------------------------------------------------------------------
(* Catalog data: what fetchIndustries() and fetchPacks() may answer, and    *)
(* the static LLM_CATALOG.  A key that is absent in the response is absent  *)
(* from the record.                                                         *)

\* The use case of the default-synthesis example: a boolean question with a
\* default and a select question without one.
ChatUseCase ==
    [id |-> "chat", name |-> "Chat assistant", description |-> "d1",
     scope_questions |->
        <<[id |-> "a", prompt |-> "A?", type |-> "boolean", default |-> TRUE],
          [id |-> "b", prompt |-> "B?", type |-> "select",
           options |-> <<"x", "y">>]>>]

KycUseCase ==
    [id |-> "kyc", name |-> "KYC", description |-> "d2",
     scope_questions |->
        <<[id |-> "b", prompt |-> "B?", type |-> "select",
           options |-> <<"x", "y">>, default |-> "y"]>>]

\* No scope_questions key.
ClaimsUseCase == [id |-> "claims", name |-> "Claims", description |-> "d3"]

FullIndustries ==
    <<[id |-> "fin", name |-> "Finance",
       segments |->
          <<[id |-> "bank", name |-> "Banking",
             use_cases |-> <<ChatUseCase, KycUseCase>>],
            [id |-> "ins", name |-> "Insurance",
             use_cases |-> <<ClaimsUseCase>>]>>],
      [id |-> "health", name |-> "Healthcare",
       segments |-> <<[id |-> "clinic", name |-> "Clinics"]>>]>>

SmallIndustries ==
    <<[id |-> "fin", name |-> "Finance",
       segments |->
          <<[id |-> "bank", name |-> "Banking",
             use_cases |->
                <<[id |-> "chat", name |-> "Chat assistant",
                   description |-> "d1",
                   scope_questions |->
                      <<[id |-> "a", prompt |-> "A?", type |-> "boolean",
                         default |-> TRUE]>>]>>]>>]>>

\* type PackDomainFilter and the pack domains.
All == <<"a", "l", "l">>
Governance == <<"g", "o", "v", "e", "r", "n", "a", "n", "c", "e">>
Safety == <<"s", "a", "f", "e", "t", "y">>
Security == <<"s", "e", "c", "u", "r", "i", "t", "y">>

\* The packs of the sort example (safety B order 2, safety A order 1,
\* governance C without order), with the version list of the version
\* example; the governance pack has no versions key.
FullPacks ==
    <<[domain |-> Safety, pack_id |-> <<"p", "2">>, name |-> <<"B">>,
       order |-> 2, versions |-> << <<"9">>, <<"1", "0">> >>],
      [domain |-> Safety, pack_id |-> <<"p", "1">>, name |-> <<"A">>,
       order |-> 1, versions |-> << <<"1", ".", "0">> >>],
      [domain |-> Governance, pack_id |-> <<"g", "1">>, name |-> <<"C">>]>>

SmallPacks ==
    <<[domain |-> Security, pack_id |-> <<"p", "1">>, name |-> <<"P">>,
       versions |-> << <<"9">>, <<"1", "0">> >>]>>

\* import { LLM_CATALOG } from "../../config/llms": entries in rank order.
LLM_CATALOG ==
    <<[model |-> <<"G", "P", "T">>, developer |-> <<"O", "a", "i">>,
       popularityTier |-> <<"T", "o", "p">>, mainDriver |-> <<"a", "p", "i">>,
       rank |-> 1],
      [model |-> <<"C", "y">>, developer |-> <<"A", "n", "t">>,
       popularityTier |-> <<"T", "o", "p">>, mainDriver |-> <<"a", "p", "i">>,
       rank |-> 2],
      [model |-> <<"X", "e">>, developer |-> <<"O", "p", "e", "n">>,
       popularityTier |-> <<"n", "e", "w">>, mainDriver |-> <<"o", "n">>,
       rank |-> 3]>>

\* const DEPLOYMENT_OPTIONS
DEPLOYMENT_OPTIONS ==
    <<"AWS Native", "GCP Native", "Azure Native", "Custom Stack">>

-----------------------------------------------------------------------------
(* Values derived at each render (the useMemo cells).                       *)

EmptyMap == [k \in {} |-> TRUE]

Range(s) == {s[i] : i \in DOMAIN s}

\* Array.prototype.find on the id: <<>> is undefined, <<x>> the first match.
FindById(seq, id) ==
    LET hits == {i \in DOMAIN seq : seq[i].id = id}
    IN IF hits = {} THEN <<>>
       ELSE <<seq[CHOOSE i \in hits : \A j \in hits : i <= j]>>

\* const segments = useMemo(...)
segments ==
    LET ind == FindById(industries, industryId)
    IN IF ind # <<>> /\ "segments" \in DOMAIN ind[1] THEN ind[1].segments
       ELSE <<>>

\* const useCases = useMemo(...)
useCases ==
    LET seg == FindById(segments, segmentId)
    IN IF seg # <<>> /\ "use_cases" \in DOMAIN seg[1] THEN seg[1].use_cases
       ELSE <<>>

\* const useCase = useMemo(...): <<>> is undefined.
useCase == FindById(useCases, useCaseId)

\* useCase.scope_questions || []
scopeQuestions(uc) ==
    IF "scope_questions" \in DOMAIN uc THEN uc.scope_questions ELSE <<>>

\* The loop of the use-case effect over the questions from index i on:
\* defaults[q.id] = q.default for each q with q.default !== undefined.
RECURSIVE defaultsLoop(_, _, _)
defaultsLoop(qs, i, defaults) ==
    IF i > Len(qs) THEN defaults
    ELSE LET q == qs[i]
         IN defaultsLoop(qs, i + 1,
                IF "default" \in DOMAIN q
                THEN [k \in DOMAIN defaults \cup {q.id} |->
                         IF k = q.id THEN q.default ELSE defaults[k]]
                ELSE defaults)

synthesizeDefaults(qs) == defaultsLoop(qs, 1, EmptyMap)

\* Truthiness of a string: only "" is falsy.
Truthy(v) == v # ""

\* A JavaScript value of the && chain with its type, and its truthiness.
jsString(v) == [type |-> "string", string |-> v]
jsBoolean(v) == [type |-> "boolean", boolean |-> v]

jsTruthy(x) == IF x.type = "string" THEN Truthy(x.string) ELSE x.boolean

\* a && b && ... : the first falsy operand, or else the last operand.
RECURSIVE andChain(_)
andChain(ops) ==
    IF Len(ops) = 1 \/ ~jsTruthy(Head(ops)) THEN Head(ops)
    ELSE andChain(Tail(ops))

canCreateIgnoringPacks ==
    andChain(<<jsString(industryId), jsString(segmentId), jsString(useCaseId),
               jsString(deploymentEnvironment),
               jsBoolean(Len(selectedLlms) > 0)>>)

\* const canCreate = industryId && segmentId && useCaseId &&
\*   deploymentEnvironment && selectedLlms.length > 0 &&
\*   Object.values(selectedPacks).length > 0
canCreate ==
    andChain(<<jsString(industryId), jsString(segmentId), jsString(useCaseId),
               jsString(deploymentEnvironment),
               jsBoolean(Len(selectedLlms) > 0),
               jsBoolean(Len(selectedPacks) > 0)>>)

\* disabled={!canCreate}
ready == jsTruthy(canCreate)

-----------------------------------------------------------------------------
(* Initial state: the page after its first commit.  The mount run of the    *)
(* three cascade effects writes the values the cells already hold, and the  *)
(* load effect has started its two fetches.                                 *)

Snapshot ==
    [industryId |-> industryId, segmentId |-> segmentId,
     useCaseId |-> useCaseId, answers |-> answers,
     selectedPacks |-> selectedPacks, selectedLlms |-> selectedLlms]

Init ==
    /\ industries = <<>>
    /\ packs = <<>>
    /\ err = <<>>
    /\ name = "My AI System"
    /\ description = ""
    /\ industryId = ""
    /\ segmentId = ""
    /\ useCaseId = ""
    /\ answers = EmptyMap
    /\ selectedPacks = <<>>
    /\ selectedLlms = <<>>
    /\ deploymentEnvironment = ""
    /\ llmQuery = <<>>
    /\ packDomainFilter = All
    /\ loadPending = TRUE
    /\ effectDeps = <<"", "", "">>
    /\ calls = <<>>
    /\ location = "/new"
    /\ hist = [tick |-> 0, op |-> "mount", args |-> <<>>,
               prev |-> [op |-> "none", args |-> <<>>],
               pre |-> [industryId |-> "", segmentId |-> "", useCaseId |-> "",
                        answers |-> EmptyMap, selectedPacks |-> <<>>,
                        selectedLlms |-> <<>>]]

\* The observer records an event: its name, its arguments, the state it
\* started from and the event before it.  The tick tells a repeated event
\* from no event.
Log(op, args) ==
    hist' = [tick |-> 1 - hist.tick, op |-> op, args |-> args,
             prev |-> [op |-> hist.op, args |-> hist.args], pre |-> Snapshot]

\* Every effect of the last commit has run.
EffectsDone == effectDeps = <<industryId, segmentId, useCaseId>>

\* The page is mounted and idle: an event handler or a promise continuation
\* can run.  (A commit's effects are flushed before the next task.)
Idle == EffectsDone /\ location = "/new"

-----------------------------------------------------------------------------
(* The catalog load: useEffect(() => { (async () => {...})() }, [])          *)

\* e.message || String(e)
errorText(e) == IF e.message # "" THEN e.message ELSE e.string

Errors ==
    {[message |-> "HTTP 500", string |-> "Error: HTTP 500"],
     [message |-> "", string |-> "Error"]}

\* Both fetches fulfilled with i and p.
LoadOk(i, p) ==
    /\ Idle /\ loadPending
    /\ loadPending' = FALSE
    /\ industries' = IF "industries" \in DOMAIN i THEN i.industries ELSE <<>>
    /\ packs' = IF "packs" \in DOMAIN p THEN p.packs ELSE <<>>
    /\ UNCHANGED <<err, textVars, hierVars, answers, llmVars, packVars,
                   deploymentEnvironment, effectDeps, createVars>>

\* One of the fetches rejected with e: Promise.all rejects, the catch runs.
LoadFail(e) ==
    /\ Idle /\ loadPending
    /\ loadPending' = FALSE
    /\ err' = <<errorText(e)>>
    /\ UNCHANGED <<industries, packs, textVars, hierVars, answers, llmVars,
                   packVars, deploymentEnvironment, effectDeps, createVars>>

\* A settled promise.
fulfilled(v) == [status |-> "fulfilled", value |-> v]
rejected(e) == [status |-> "rejected", reason |-> e]

\* Promise.all([fetchIndustries(), fetchPacks()]) once it settles, from what
\* the two fetches settle to: it rejects with the reason of the fetch that
\* rejects first (first tells which of the two settles first), whatever the
\* other does, and else fulfils with both values.
promiseAll(ri, rp, first) ==
    IF ri.status = "rejected" /\ (rp.status = "fulfilled" \/ first = 1)
    THEN rejected(ri.reason)
    ELSE IF rp.status = "rejected" THEN rejected(rp.reason)
    ELSE fulfilled(<<ri.value, rp.value>>)

\* A load that awaits and stores each fetch on its own.
LoadSettledEach(ri, rp, first) ==
    /\ Idle /\ loadPending
    /\ loadPending' = FALSE
    /\ industries' = IF ri.status = "fulfilled" /\ "industries" \in DOMAIN ri.value
                     THEN ri.value.industries ELSE <<>>
    /\ packs' = IF rp.status = "fulfilled" /\ "packs" \in DOMAIN rp.value
                THEN rp.value.packs ELSE <<>>
    /\ err' = LET r == promiseAll(ri, rp, first)
              IN IF r.status = "rejected" THEN <<errorText(r.reason)>> ELSE err
    /\ UNCHANGED <<textVars, hierVars, answers, llmVars, packVars,
                   deploymentEnvironment, effectDeps, createVars>>

\* The continuation of the load effect, the fetches having settled to ri and
\* rp: the try branch when Promise.all fulfils, the catch when it rejects.
LoadSettled(ri, rp, first) ==
    LET r == promiseAll(ri, rp, first)
    IN IF r.status = "fulfilled" THEN LoadOk(r.value[1], r.value[2])
       ELSE LoadFail(r.reason)

-----------------------------------------------------------------------------
(* The hierarchy selects and the scope form.                                *)

optionIds(seq) == {""} \cup {seq[i].id : i \in DOMAIN seq}

\* <select value={industryId} onChange={(e) => setIndustryId(e.target.value)}>
SetIndustry(v) ==
    /\ Idle
    /\ industryId' = v
    /\ UNCHANGED <<catalogVars, err, textVars, segmentId, useCaseId, answers,
                   llmVars, packVars, deploymentEnvironment, effectDeps,
                   createVars>>

\* <select value={segmentId} onChange=... disabled={!industryId}>
SetSegment(v) ==
    /\ Idle
    /\ Truthy(industryId)
    /\ segmentId' = v
    /\ UNCHANGED <<catalogVars, err, textVars, industryId, useCaseId, answers,
                   llmVars, packVars, deploymentEnvironment, effectDeps,
                   createVars>>

\* <select value={useCaseId} onChange=... disabled={!segmentId}>
SetUseCase(v) ==
    /\ Idle
    /\ Truthy(segmentId)
    /\ useCaseId' = v
    /\ UNCHANGED <<catalogVars, err, textVars, industryId, segmentId, answers,
                   llmVars, packVars, deploymentEnvironment, effectDeps,
                   createVars>>

\* <input value={name} onChange={(e) => setName(e.target.value)} />
SetName(v) ==
    /\ Idle
    /\ name' = v
    /\ UNCHANGED <<catalogVars, err, description, hierVars, answers, llmVars,
                   packVars, deploymentEnvironment, effectDeps, createVars>>

\* What the user can enter for question q, as e.target.value.
rawInputs(q) ==
    CASE q.type = "boolean" -> {"true", "false"}
      [] q.type = "select" ->
            IF "options" \in DOMAIN q THEN Range(q.options) ELSE {}
      [] OTHER -> {}

\* The value the onChange handler of q's control stores for the input raw.
coerce(q, raw) ==
    CASE q.type = "boolean" -> raw = "true"
      [] OTHER -> raw

\* setAnswers(a => ({...a, [q.id]: value})), from the control of question
\* number n of the rendered use case.
SetAnswer(n, raw) ==
    /\ Idle
    /\ useCase # <<>>
    /\ n \in DOMAIN scopeQuestions(useCase[1])
    /\ LET q == scopeQuestions(useCase[1])[n]
       IN /\ raw \in rawInputs(q)
          /\ answers' = [k \in DOMAIN answers \cup {q.id} |->
                            IF k = q.id THEN coerce(q, raw) ELSE answers[k]]
    /\ UNCHANGED <<catalogVars, err, textVars, hierVars, llmVars, packVars,
                   deploymentEnvironment, effectDeps, createVars>>

-----------------------------------------------------------------------------
(* The cascade effects.  Each takes and returns the pending writes w of the *)
(* commit (a later write to a cell wins); useCase is that commit's value.   *)

EffectIndustryAnswersOnly(w) == [w EXCEPT !.answers = EmptyMap]

\* useEffect(() => {...}, [industryId])
EffectIndustry(w) ==
    [w EXCEPT !.segmentId = "", !.useCaseId = "", !.answers = EmptyMap]

\* A segment effect that forgets the answers.
EffectSegmentKeepingAnswers(w) == [w EXCEPT !.useCaseId = ""]

\* useEffect(() => {...}, [segmentId])
EffectSegment(w) ==
    [w EXCEPT !.useCaseId = "", !.answers = EmptyMap]

EffectUseCaseMerging(w) ==
    IF useCase = <<>> THEN w
    ELSE LET d == synthesizeDefaults(scopeQuestions(useCase[1]))
         IN [w EXCEPT !.answers =
                [k \in DOMAIN w.answers \cup DOMAIN d |->
                    IF k \in DOMAIN d THEN d[k] ELSE w.answers[k]]]

\* useEffect(() => {...}, [useCaseId])
EffectUseCase(w) ==
    IF useCase = <<>> THEN w
    ELSE [w EXCEPT !.answers = synthesizeDefaults(scopeQuestions(useCase[1]))]

\* A cascade that also empties the two registries.
FlushEffectsClearingSelections ==
    /\ ~EffectsDone
    /\ LET w0 == [segmentId |-> segmentId, useCaseId |-> useCaseId,
                  answers |-> answers]
           w1 == IF industryId # effectDeps[1] THEN EffectIndustry(w0) ELSE w0
           w2 == IF segmentId # effectDeps[2] THEN EffectSegment(w1) ELSE w1
           w3 == IF useCaseId # effectDeps[3] THEN EffectUseCase(w2) ELSE w2
       IN /\ segmentId' = w3.segmentId
          /\ useCaseId' = w3.useCaseId
          /\ answers' = w3.answers
    /\ effectDeps' = <<industryId, segmentId, useCaseId>>
    /\ selectedPacks' = IF industryId # effectDeps[1] THEN <<>> ELSE selectedPacks
    /\ selectedLlms' = IF industryId # effectDeps[1] THEN <<>> ELSE selectedLlms
    /\ UNCHANGED <<catalogVars, err, textVars, industryId, llmQuery,
                   packDomainFilter, deploymentEnvironment, createVars, hist>>

\* One commit's effects: those whose dependency changed since the last run,
\* in the order of their declaration, then the writes they queued.
FlushEffects ==
    /\ ~EffectsDone
    /\ LET w0 == [segmentId |-> segmentId, useCaseId |-> useCaseId,
                  answers |-> answers]
           w1 == IF industryId # effectDeps[1] THEN EffectIndustry(w0) ELSE w0
           w2 == IF segmentId # effectDeps[2] THEN EffectSegment(w1) ELSE w1
           w3 == IF useCaseId # effectDeps[3] THEN EffectUseCase(w2) ELSE w2
       IN /\ segmentId' = w3.segmentId
          /\ useCaseId' = w3.useCaseId
          /\ answers' = w3.answers
    /\ effectDeps' = <<industryId, segmentId, useCaseId>>
    /\ UNCHANGED <<catalogVars, err, textVars, industryId, llmVars, packVars,
                   deploymentEnvironment, createVars, hist>>

-----------------------------------------------------------------------------
(* The hierarchy specification: the load, the three selects offering the   *)
(* options they render, the scope form and the cascade.                     *)

HierLoadOk ==
    /\ LoadOk([industries |-> FullIndustries], [packs |-> SmallPacks])
    /\ Log("loadOk", <<>>)

HierLoadFail == \E e \in Errors : LoadFail(e) /\ Log("loadFail", <<e>>)

HierSetIndustry ==
    \E v \in optionIds(industries) : SetIndustry(v) /\ Log("setIndustry", <<v>>)

HierSetSegment ==
    \E v \in optionIds(segments) : SetSegment(v) /\ Log("setSegment", <<v>>)

HierSetUseCase ==
    \E v \in optionIds(useCases) : SetUseCase(v) /\ Log("setUseCase", <<v>>)

HierSetAnswer ==
    \E n \in 1..2, raw \in {"true", "false", "x", "y"} :
        SetAnswer(n, raw) /\ Log("setAnswer", <<n, raw>>)

HierSetName ==
    \E v \in {"My AI System", ""} : SetName(v) /\ Log("setName", <<v>>)

NextHier ==
    \/ HierSetName
    \/ HierLoadOk
    \/ HierLoadFail
    \/ HierSetIndustry
    \/ HierSetSegment
    \/ HierSetUseCase
    \/ HierSetAnswer
    \/ FlushEffects

SpecHier == Init /\ [][NextHier]_vars

-----------------------------------------------------------------------------
(* The load specification: each of the two fetches fulfils or rejects, in   *)
(* either order, and the page is used afterwards.                           *)

IndustriesResults ==
    {fulfilled([industries |-> FullIndustries])} \cup {rejected(e) : e \in Errors}

PacksResults ==
    {fulfilled([packs |-> SmallPacks])} \cup {rejected(e) : e \in Errors}

LoadSettle ==
    \E ri \in IndustriesResults, rp \in PacksResults, first \in 1..2 :
        LoadSettled(ri, rp, first) /\ Log("loadSettled", <<ri, rp, first>>)

NextLoad ==
    \/ LoadSettle
    \/ HierSetName
    \/ HierSetIndustry
    \/ HierSetSegment
    \/ HierSetUseCase
    \/ FlushEffects

SpecLoad == Init /\ [][NextLoad]_vars

-----------------------------------------------------------------------------
(* The pack list and the Pack Registry.                                     *)

\* Number(x.order ?? 9999)
MissingOrder == 9999

packOrder(x) == IF "order" \in DOMAIN x THEN x.order ELSE MissingOrder

\* x.name || x.pack_id
packLabel(x) ==
    IF "name" \in DOMAIN x /\ x.name # <<>> THEN x.name ELSE x.pack_id

\* String.prototype.localeCompare(a, b) < 0 for the characters of Alphabet:
\* first by the letters without their case (a proper prefix first), then, on
\* a tie, lower case before upper case at the first difference.
caseOf(s) == [i \in 1..Len(s) |-> IF s[i] \in UpperCase THEN 1 ELSE 0]

RECURSIVE NatSeqLess(_, _)
NatSeqLess(a, b) ==
    IF b = <<>> THEN FALSE
    ELSE IF a = <<>> THEN TRUE
    ELSE IF Head(a) # Head(b) THEN Head(a) < Head(b)
    ELSE NatSeqLess(Tail(a), Tail(b))

localeLess(a, b) ==
    IF toLowerCase(a) # toLowerCase(b)
    THEN StrLess(toLowerCase(a), toLowerCase(b))
    ELSE NatSeqLess(caseOf(a), caseOf(b))

\* A comparator without the order key.
packBeforeIgnoringOrder(a, b) ==
    IF a.domain # b.domain THEN localeLess(a.domain, b.domain)
    ELSE localeLess(packLabel(a), packLabel(b))

\* The comparator of packsForDisplay is negative for (a, b).
packBefore(a, b) ==
    IF a.domain # b.domain THEN localeLess(a.domain, b.domain)
    ELSE IF packOrder(a) # packOrder(b) THEN packOrder(a) < packOrder(b)
    ELSE localeLess(packLabel(a), packLabel(b))

\* Insert x into the sorted s behind every element that is not after it
\* (Array.prototype.sort is stable).
RECURSIVE insertPack(_, _)
insertPack(s, x) ==
    IF s = <<>> THEN <<x>>
    ELSE IF packBefore(x, Head(s)) THEN <<x>> \o s
    ELSE <<Head(s)>> \o insertPack(Tail(s), x)

RECURSIVE sortPacks(_)
sortPacks(s) ==
    IF s = <<>> THEN <<>>
    ELSE insertPack(sortPacks(SubSeq(s, 1, Len(s) - 1)), s[Len(s)])

\* const packsForDisplay = useMemo(...)
packsForDisplay == sortPacks(packs)

\* const filteredPacksForDisplay = useMemo(...)
filteredPacksForDisplay ==
    IF packDomainFilter = All THEN packsForDisplay
    ELSE LET keep(x) == x.domain = packDomainFilter
         IN SelectSeq(packsForDisplay, keep)

\* const versions: string[] = p.versions || []
versionsOf(x) == IF "versions" \in DOMAIN x THEN x.versions ELSE <<>>

\* `${domain}/${pack_id}`
packKey(domain, pack_id) == domain \o <<"/">> \o pack_id

\* Object.keys(reg) and reg[k]
keysOf(reg) == {reg[i].key : i \in DOMAIN reg}

entryOf(reg, k) == reg[CHOOSE i \in DOMAIN reg : reg[i].key = k].val

\* Boolean(selectedPacks[k])
isSelected(prev, k) == \E i \in DOMAIN prev : prev[i].key = k

\* A registry kept as a list that is only appended to.
putEntryAppending(prev, k, val) == Append(prev, [key |-> k, val |-> val])

\* { ...prev, [k]: val }: an existing key keeps its place, a new one is last.
putEntry(prev, k, val) ==
    IF isSelected(prev, k)
    THEN [i \in DOMAIN prev |->
             IF prev[i].key = k THEN [key |-> k, val |-> val] ELSE prev[i]]
    ELSE Append(prev, [key |-> k, val |-> val])

\* delete next[k]
deleteEntry(prev, k) ==
    LET keep(e) == e.key # k
    IN SelectSeq(prev, keep)

togglePackNeverRemoves(prev, domain, pack_id, versions) ==
    putEntry(prev, packKey(domain, pack_id),
             [domain |-> domain, pack_id |-> pack_id,
              version |-> latestVersion(versions)])

\* The updater of togglePack(domain, pack_id, versions).
togglePack(prev, domain, pack_id, versions) ==
    LET k == packKey(domain, pack_id)
    IN IF isSelected(prev, k) THEN deleteEntry(prev, k)
       ELSE putEntry(prev, k,
                     [domain |-> domain, pack_id |-> pack_id,
                      version |-> latestVersion(versions)])

\* The updater of setPackVersion(domain, pack_id, version).
setPackVersion(prev, domain, pack_id, version) ==
    putEntry(prev, packKey(domain, pack_id),
             [domain |-> domain, pack_id |-> pack_id, version |-> version])

\* Object.values(selectedPacks)
selected(reg) == [i \in DOMAIN reg |-> reg[i].val]

\* The Add/Remove button of card n of the rendered pack list.
TogglePack(domain, pack_id, versions) ==
    /\ Idle
    /\ selectedPacks' = togglePack(selectedPacks, domain, pack_id, versions)
    /\ UNCHANGED <<catalogVars, err, textVars, hierVars, answers, llmVars,
                   packDomainFilter, deploymentEnvironment, effectDeps,
                   createVars>>

\* The Version select of a checked card.
SetPackVersion(domain, pack_id, version) ==
    /\ Idle
    /\ selectedPacks' = setPackVersion(selectedPacks, domain, pack_id, version)
    /\ UNCHANGED <<catalogVars, err, textVars, hierVars, answers, llmVars,
                   packDomainFilter, deploymentEnvironment, effectDeps,
                   createVars>>

\* The All / Governance / Safety / Security buttons.
SetPackDomainFilter(f) ==
    /\ Idle
    /\ packDomainFilter' = f
    /\ UNCHANGED <<catalogVars, err, textVars, hierVars, answers, llmVars,
                   selectedPacks, deploymentEnvironment, effectDeps,
                   createVars>>

-----------------------------------------------------------------------------
(* The pack specification: the load and the pack cards as rendered.         *)

PacksLoadOk ==
    /\ LoadOk([industries |-> SmallIndustries], [packs |-> FullPacks])
    /\ Log("loadOk", <<>>)

PacksToggle ==
    \E n \in DOMAIN filteredPacksForDisplay :
        LET x == filteredPacksForDisplay[n]
        IN /\ TogglePack(x.domain, x.pack_id, versionsOf(x))
           /\ Log("togglePack", <<x.domain, x.pack_id, versionsOf(x)>>)

PacksSetVersion ==
    \E n \in DOMAIN filteredPacksForDisplay :
        LET x == filteredPacksForDisplay[n]
        IN /\ isSelected(selectedPacks, packKey(x.domain, x.pack_id))
           /\ \E v \in Range(versionsOf(x)) :
                 /\ SetPackVersion(x.domain, x.pack_id, v)
                 /\ Log("setPackVersion", <<x.domain, x.pack_id, v>>)

PacksSetFilter ==
    \E f \in {All, Governance, Safety, Security} :
        SetPackDomainFilter(f) /\ Log("setPackDomainFilter", <<f>>)

NextPacks ==
    \/ PacksLoadOk
    \/ PacksToggle
    \/ PacksSetVersion
    \/ PacksSetFilter

SpecPacks == Init /\ [][NextPacks]_vars

-----------------------------------------------------------------------------
(* The sort specification: the load delivers any list of up to MaxPacks     *)
(* packs of a pool (in any order, with repetitions), then the domain filter *)
(* is used.  The pool has packs without order, without name, with an order  *)
(* above 9999 and with names that differ in case only.                      *)

MaxPacks == 3

PackPool ==
    {FullPacks[1], FullPacks[2], FullPacks[3],
     [domain |-> Governance, pack_id |-> <<"b">>],
     [domain |-> Governance, pack_id |-> <<"z">>, name |-> <<"A">>,
      order |-> 10000],
     [domain |-> Safety, pack_id |-> <<"p", "3">>, name |-> <<"a">>,
      order |-> 1]}

PackLists == UNION {[1..n -> PackPool] : n \in 0..MaxPacks}

SortLoadOk ==
    \E ps \in PackLists :
        /\ LoadOk([industries |-> SmallIndustries], [packs |-> ps])
        /\ Log("loadOk", <<ps>>)

SortSetFilter ==
    \E f \in {All, Governance, Safety, Security} :
        SetPackDomainFilter(f) /\ UNCHANGED hist

NextSort ==
    \/ SortLoadOk
    \/ SortSetFilter

SpecSort == Init /\ [][NextSort]_vars

-----------------------------------------------------------------------------
(* The registry specification: togglePack and setPackVersion called with    *)
(* any arguments, also for a pack that is not selected, with a version that *)
(* is in no list, and with two (domain, pack_id) pairs that join to the     *)
(* same key.                                                                *)

RegPairs ==
    {<<Safety, <<"p", "1">> >>,
     << <<"a", "/", "b">>, <<"c">> >>,
     << <<"a">>, <<"b", "/", "c">> >>}

RegVersionLists == {<<>>, << <<"9">>, <<"1", "0">> >>}

RegVersions == {<<"9">>, <<"7">>}

RegToggle ==
    \E dp \in RegPairs, vs \in RegVersionLists :
        /\ TogglePack(dp[1], dp[2], vs)
        /\ Log("togglePack", <<dp[1], dp[2], vs>>)

RegSetVersion ==
    \E dp \in RegPairs, v \in RegVersions :
        /\ SetPackVersion(dp[1], dp[2], v)
        /\ Log("setPackVersion", <<dp[1], dp[2], v>>)

NextRegistry ==
    \/ RegToggle
    \/ RegSetVersion

SpecRegistry == Init /\ [][NextRegistry]_vars

-----------------------------------------------------------------------------
(* The model search and the Model Registry.                                 *)

\* const filteredLlms = useMemo(...)
filteredLlms ==
    LET q == toLowerCase(trim(llmQuery))
        match(llm) ==
            \/ includes(toLowerCase(llm.model), q)
            \/ includes(toLowerCase(llm.developer), q)
            \/ includes(toLowerCase(llm.popularityTier), q)
            \/ includes(toLowerCase(llm.mainDriver), q)
    IN IF q = <<>> THEN LLM_CATALOG ELSE SelectSeq(LLM_CATALOG, match)

\* The <option> values of the model <select multiple>, in document order.
llmOptions == [i \in DOMAIN filteredLlms |-> filteredLlms[i].model]

\* The options the controlled select shows as selected (value={selectedLlms}).
shownSelected == Range(llmOptions) \cap Range(selectedLlms)

onChangeLlmsSelectionOrder(selectedOptions) ==
    LET kept(m) == m \in selectedOptions
        added(m) == m \in selectedOptions /\ m \notin Range(selectedLlms)
    IN SelectSeq(selectedLlms, kept) \o SelectSeq(llmOptions, added)

\* Array.from(e.target.selectedOptions).map((opt) => opt.value): the
\* selected options in document order.
onChangeLlms(selectedOptions) ==
    LET chosen(m) == m \in selectedOptions
    IN SelectSeq(llmOptions, chosen)

\* The change event of the model select: the user has left the options
\* selectedOptions selected, another set than the one shown.
OnChangeLlms(selectedOptions) ==
    /\ Idle
    /\ selectedOptions \subseteq Range(llmOptions)
    /\ selectedOptions # shownSelected
    /\ selectedLlms' = onChangeLlms(selectedOptions)
    /\ UNCHANGED <<catalogVars, err, textVars, hierVars, answers, llmQuery,
                   packVars, deploymentEnvironment, effectDeps, createVars>>

\* <input value={llmQuery} onChange={(e) => setLlmQuery(e.target.value)} />
SetLlmQuery(q) ==
    /\ Idle
    /\ llmQuery' = q
    /\ UNCHANGED <<catalogVars, err, textVars, hierVars, answers, selectedLlms,
                   packVars, deploymentEnvironment, effectDeps, createVars>>

\* Ctrl/Cmd + click on option m: m changes sides, the other options stay.
ctrlClick(m) ==
    IF m \in shownSelected THEN shownSelected \ {m} ELSE shownSelected \cup {m}

-----------------------------------------------------------------------------
(* The model specification: the search box and the model select.            *)

Queries == {<<>>, <<" ">>, <<"O", "a">>, <<" ", "n", "e", "w">>, <<"z">>}

LlmsSetQuery == \E q \in Queries : SetLlmQuery(q) /\ Log("setLlmQuery", <<q>>)

\* Ctrl/Cmd + click toggles one option.
LlmsToggle ==
    \E m \in Range(llmOptions) :
        OnChangeLlms(ctrlClick(m)) /\ Log("toggleLlm", <<m>>)

\* A plain click leaves one option selected.
LlmsClick ==
    \E m \in Range(llmOptions) : OnChangeLlms({m}) /\ Log("clickLlm", <<m>>)

NextLlms ==
    \/ LlmsSetQuery
    \/ LlmsToggle
    \/ LlmsClick

SpecLlms == Init /\ [][NextLlms]_vars

-----------------------------------------------------------------------------
(* The text inputs, the deployment select and the submission.               *)

\* <textarea value={description} onChange=... />
SetDescription(v) ==
    /\ Idle
    /\ description' = v
    /\ UNCHANGED <<catalogVars, err, name, hierVars, answers, llmVars,
                   packVars, deploymentEnvironment, effectDeps, createVars>>

deploymentOptionValues == {""} \cup Range(DEPLOYMENT_OPTIONS)

\* <select value={deploymentEnvironment} onChange=...>
SetDeploymentEnvironment(v) ==
    /\ Idle
    /\ v \in deploymentOptionValues
    /\ deploymentEnvironment' = v
    /\ UNCHANGED <<catalogVars, err, textVars, hierVars, answers, llmVars,
                   packVars, effectDeps, createVars>>

\* A payload that lists the selected packs as the page shows them.
displayOrderPayload ==
    LET chosen(x) == isSelected(selectedPacks, packKey(x.domain, x.pack_id))
        shown == SelectSeq(packsForDisplay, chosen)
    IN [name |-> name,
        description |-> IF Truthy(description) THEN <<description>> ELSE <<>>,
        industry_id |-> industryId,
        segment_id |-> segmentId,
        use_case_id |-> useCaseId,
        scope_answers |-> answers,
        deployment_environment |-> deploymentEnvironment,
        selected_llms |-> selectedLlms,
        selected_packs |->
            [i \in DOMAIN shown |->
                entryOf(selectedPacks,
                        packKey(shown[i].domain, shown[i].pack_id))]]

\* The payload of onCreate; description || null, with <<>> for null.
payload ==
    [name |-> name,
     description |-> IF Truthy(description) THEN <<description>> ELSE <<>>,
     industry_id |-> industryId,
     segment_id |-> segmentId,
     use_case_id |-> useCaseId,
     scope_answers |-> answers,
     deployment_environment |-> deploymentEnvironment,
     selected_llms |-> selectedLlms,
     selected_packs |-> selected(selectedPacks)]

\* s without its element number n.
removeAt(s, n) == SubSeq(s, 1, n - 1) \o SubSeq(s, n + 1, Len(s))

\* The click on Generate Checklist with the button always enabled.
OnCreateUngated ==
    /\ Idle
    /\ Len(calls) < MaxCalls
    /\ err' = <<>>
    /\ calls' = Append(calls, payload)
    /\ UNCHANGED <<catalogVars, textVars, hierVars, answers, llmVars, packVars,
                   deploymentEnvironment, effectDeps, location>>

\* The click on Generate Checklist (disabled={!canCreate}): onCreate up to
\* its await.
OnCreate ==
    /\ Idle
    /\ ready
    /\ Len(calls) < MaxCalls
    /\ err' = <<>>
    /\ calls' = Append(calls, payload)
    /\ UNCHANGED <<catalogVars, textVars, hierVars, answers, llmVars, packVars,
                   deploymentEnvironment, effectDeps, location>>

\* createProject call number n fulfilled with res: onCreate after its await.
CreateOk(n, res) ==
    /\ Idle
    /\ n \in DOMAIN calls
    /\ calls' = removeAt(calls, n)
    /\ location' = "/projects/" \o res.project_id
    /\ UNCHANGED <<catalogVars, err, textVars, hierVars, answers, llmVars,
                   packVars, deploymentEnvironment, effectDeps>>

CreateFailResetsForm(n, e) ==
    /\ Idle
    /\ n \in DOMAIN calls
    /\ calls' = removeAt(calls, n)
    /\ err' = <<errorText(e)>>
    /\ selectedLlms' = <<>>
    /\ selectedPacks' = <<>>
    /\ answers' = EmptyMap
    /\ UNCHANGED <<catalogVars, textVars, hierVars, llmQuery, packDomainFilter,
                   deploymentEnvironment, effectDeps, location>>

\* createProject call number n rejected with e: the catch of onCreate.
CreateFail(n, e) ==
    /\ Idle
    /\ n \in DOMAIN calls
    /\ calls' = removeAt(calls, n)
    /\ err' = <<errorText(e)>>
    /\ UNCHANGED <<catalogVars, textVars, hierVars, answers, llmVars, packVars,
                   deploymentEnvironment, effectDeps, location>>

CreateErrors ==
    {[message |-> "create failed", string |-> "Error: create failed"]}

-----------------------------------------------------------------------------
(* The page specification: every control of the page on a small catalog,    *)
(* the readiness gate and the submission.                                   *)

PageLoadOk ==
    /\ LoadOk([industries |-> SmallIndustries], [packs |-> SmallPacks])
    /\ UNCHANGED hist

PageLoadFail == \E e \in Errors : LoadFail(e) /\ UNCHANGED hist

PageSetIndustry ==
    \E v \in optionIds(industries) : SetIndustry(v) /\ UNCHANGED hist

PageSetSegment ==
    \E v \in optionIds(segments) : SetSegment(v) /\ UNCHANGED hist

PageSetUseCase ==
    \E v \in optionIds(useCases) : SetUseCase(v) /\ UNCHANGED hist

PageSetAnswer ==
    \E raw \in {"true", "false"} : SetAnswer(1, raw) /\ UNCHANGED hist

PageSetDescription ==
    \E v \in {"", "notes"} : SetDescription(v) /\ UNCHANGED hist

PageSetDeployment ==
    \E v \in {"", "AWS Native"} :
        SetDeploymentEnvironment(v) /\ UNCHANGED hist

PageToggleLlm ==
    \E m \in {LLM_CATALOG[1].model} :
        OnChangeLlms(ctrlClick(m)) /\ UNCHANGED hist

PageTogglePack ==
    \E n \in DOMAIN filteredPacksForDisplay :
        LET x == filteredPacksForDisplay[n]
        IN TogglePack(x.domain, x.pack_id, versionsOf(x)) /\ UNCHANGED hist

PageSetPackVersion ==
    \E n \in DOMAIN filteredPacksForDisplay :
        LET x == filteredPacksForDisplay[n]
        IN /\ isSelected(selectedPacks, packKey(x.domain, x.pack_id))
           /\ \E v \in Range(versionsOf(x)) :
                 SetPackVersion(x.domain, x.pack_id, v) /\ UNCHANGED hist

PageOnCreate == OnCreate /\ UNCHANGED hist

PageCreateOk ==
    \E n \in DOMAIN calls :
        CreateOk(n, [project_id |-> "p7"]) /\ UNCHANGED hist

PageCreateFail ==
    \E n \in DOMAIN calls, e \in CreateErrors :
        CreateFail(n, e) /\ UNCHANGED hist

Next ==
    \/ PageLoadOk
    \/ PageLoadFail
    \/ PageSetIndustry
    \/ PageSetSegment
    \/ PageSetUseCase
    \/ PageSetAnswer
    \/ PageSetDescription
    \/ PageSetDeployment
    \/ PageToggleLlm
    \/ PageTogglePack
    \/ PageSetPackVersion
    \/ PageOnCreate
    \/ PageCreateOk
    \/ PageCreateFail
    \/ FlushEffects

Spec == Init /\ [][Next]_vars

-----------------------------------------------------------------------------
(* The submission specification: two packs that the list shows in another   *)
(* order than the catalog has them, so that the order in which they are     *)
(* added can differ from the order in which they are shown.                 *)

PairPacks == SubSeq(FullPacks, 1, 2)

SubmitLoadOk ==
    /\ LoadOk([industries |-> SmallIndustries], [packs |-> PairPacks])
    /\ UNCHANGED hist

SubmitSetDeployment ==
    \E v \in {"Custom Stack"} : SetDeploymentEnvironment(v) /\ UNCHANGED hist

NextSubmit ==
    \/ SubmitLoadOk
    \/ PageSetIndustry
    \/ PageSetSegment
    \/ PageSetUseCase
    \/ PageSetDescription
    \/ SubmitSetDeployment
    \/ PageToggleLlm
    \/ PageTogglePack
    \/ PageOnCreate
    \/ PageCreateOk
    \/ PageCreateFail
    \/ FlushEffects

SpecSubmit == Init /\ [][NextSubmit]_vars

-----------------------------------------------------------------------------
(* The readiness specification: the whole hierarchy (two industries, two    *)
(* segments) with the other inputs of canCreate, without the submission.    *)

ReadyLoadOk ==
    /\ LoadOk([industries |-> FullIndustries], [packs |-> SmallPacks])
    /\ UNCHANGED hist

ReadySetName == \E v \in {"My AI System", ""} : SetName(v) /\ UNCHANGED hist

NextReady ==
    \/ ReadyLoadOk
    \/ PageSetIndustry
    \/ PageSetSegment
    \/ PageSetUseCase
    \/ PageSetAnswer
    \/ ReadySetName
    \/ PageSetDescription
    \/ PageSetDeployment
    \/ PageToggleLlm
    \/ PageTogglePack
    \/ FlushEffects

SpecReady == Init /\ [][NextReady]_vars

-----------------------------------------------------------------------------
(* The same page when the hierarchy setters are handed any id, also one     *)
(* that is no option of its select.                                         *)

AnyIds == {"", "fin", "bank", "chat", "zz"}

AnyLoadOk ==
    /\ LoadOk([industries |-> SmallIndustries], [packs |-> SmallPacks])
    /\ UNCHANGED hist

AnySetIndustry == \E v \in AnyIds : SetIndustry(v) /\ UNCHANGED hist

AnySetSegment == \E v \in AnyIds : SetSegment(v) /\ UNCHANGED hist

AnySetUseCase == \E v \in AnyIds : SetUseCase(v) /\ UNCHANGED hist

NextAnyId ==
    \/ AnyLoadOk
    \/ AnySetIndustry
    \/ AnySetSegment
    \/ AnySetUseCase
    \/ PageSetAnswer
    \/ PageSetDeployment
    \/ PageToggleLlm
    \/ PageTogglePack
    \/ FlushEffects

SpecAnyId == Init /\ [][NextAnyId]_vars

-----------------------------------------------------------------------------
(* Claims about the hierarchy and the scope form, under SpecHier.           *)

\* The last event was setIndustry, called while a use case was selected and
\* Answers was not empty, and its cascade has run.
AfterSetIndustry ==
    /\ EffectsDone
    /\ hist.op = "setIndustry"
    /\ hist.pre.useCaseId # ""
    /\ DOMAIN hist.pre.answers # {}

Cleared == segmentId = "" /\ useCaseId = "" /\ answers = EmptyMap

\* C1 as stated: after setIndustry(v) from a state with a selected use case
\* and a non-empty Answers map, for any v including the current industry_id,
\* segment_id and use_case_id are none and Answers is {} once the cascade
\* has run.
C1_CascadeAnyValue == AfterSetIndustry => Cleared

\* C1 amended: the same for every v other than the current industry_id (a
\* call with the current value changes nothing and runs no cascade).
C1_CascadeOnChange ==
    AfterSetIndustry /\ hist.args[1] # hist.pre.industryId => Cleared

C1_Witness ==
    AfterSetIndustry /\ hist.args[1] # hist.pre.industryId /\ Cleared

\* The ids of the scope questions of the selected use case (none when no
\* use case is selected).
activeQuestionIds ==
    IF useCase = <<>> THEN {}
    ELSE {scopeQuestions(useCase[1])[i].id :
             i \in DOMAIN scopeQuestions(useCase[1])}

\* C3: once the cascades have run, every key of Answers is the id of a scope
\* question of the currently selected use case (so Answers is empty when no
\* use case is selected).
C3_NoStaleAnswers == EffectsDone => DOMAIN answers \subseteq activeQuestionIds

\* The last event selected another use case, one of the rendered options
\* that is a use case, and its cascade has run.
AfterUseCaseSelected ==
    /\ EffectsDone
    /\ hist.op = "setUseCase"
    /\ hist.args[1] # hist.pre.useCaseId
    /\ useCase # <<>>

\* C7: when a use case is selected, Answers is exactly the map q.id ->
\* q.default over the scope questions q of that use case that declare a
\* default: nothing of the previous answers is kept and a question without a
\* default has no entry.
C7_DefaultSynthesis ==
    AfterUseCaseSelected =>
        LET qs == scopeQuestions(useCase[1])
            declaring == {i \in DOMAIN qs : "default" \in DOMAIN qs[i]}
        IN /\ DOMAIN answers = {qs[i].id : i \in declaring}
           /\ \A i \in declaring : answers[qs[i].id] = qs[i].default

\* A previous answer to a question that the new use case also asks, without
\* a default, is gone.
C7_Witness ==
    /\ AfterUseCaseSelected
    /\ \E i \in DOMAIN scopeQuestions(useCase[1]) :
          LET q == scopeQuestions(useCase[1])[i]
          IN /\ "default" \notin DOMAIN q
             /\ q.id \in DOMAIN hist.pre.answers
             /\ q.id \notin DOMAIN answers

-----------------------------------------------------------------------------
(* Claims about the Pack Registry, under SpecPacks.                         *)

\* This step is a togglePack call that repeats, with the same arguments,
\* the togglePack call before it.
SecondToggle ==
    /\ hist.op = "togglePack"
    /\ hist'.op = "togglePack"
    /\ hist'.tick # hist.tick
    /\ hist'.args = hist.args

\* The entries of reg other than key k, in their order.
without(reg, k) ==
    LET keep(e) == e.key # k
    IN SelectSeq(reg, keep)

\* C2 as stated: two consecutive togglePack calls with the same (domain,
\* pack_id, versions) leave the registry exactly as it was before the first:
\* the same keys, the same version for every key including the toggled one,
\* and the same order of selected().
C2_ToggleTwiceRestores ==
    [][SecondToggle => selectedPacks' = hist.pre.selectedPacks]_vars

\* C2 amended: the two calls leave the same set of keys and leave every
\* other key's entry and the relative order of the other keys unchanged; the
\* registry is exactly as before when the pack was not selected before the
\* first call; when it was selected, it ends last in selected() with the
\* version latestVersion(versions).
C2_ToggleTwice ==
    [][SecondToggle =>
        LET before == hist.pre.selectedPacks
            k == packKey(hist.args[1], hist.args[2])
        IN /\ keysOf(selectedPacks') = keysOf(before)
           /\ without(selectedPacks', k) = without(before, k)
           /\ k \notin keysOf(before) => selectedPacks' = before
           /\ k \in keysOf(before) =>
                 /\ selectedPacks'[Len(selectedPacks')].key = k
                 /\ entryOf(selectedPacks', k).version
                        = latestVersion(hist.args[3])
      ]_vars

\* Two togglePack calls in a row with the same arguments have run, on a
\* pack that was selected before them and was not the only one: it is
\* selected again, behind another pack.
C2_Witness ==
    /\ hist.op = "togglePack"
    /\ hist.prev.op = "togglePack"
    /\ hist.prev.args = hist.args
    /\ LET k == packKey(hist.args[1], hist.args[2])
       IN /\ k \in keysOf(selectedPacks)
          /\ Len(selectedPacks) >= 2
          /\ selectedPacks[1].key # k

-----------------------------------------------------------------------------
(* Claims about the Model Registry, under SpecLlms.                         *)

\* This step is the toggle of a model id.
ToggleStep == hist'.tick # hist.tick /\ hist'.op = "toggleLlm"

allModels == {LLM_CATALOG[i].model : i \in DOMAIN LLM_CATALOG}

\* C4: toggling a model id, in any reachable state and under any search
\* query, adds it to the selection if it was absent and removes it if it was
\* present, and leaves the membership of every other model id unchanged;
\* toggling the same id twice restores the prior selection.
C4_ModelToggle ==
    [][ToggleStep =>
        LET m == hist'.args[1]
        IN /\ m \in Range(selectedLlms') <=> m \notin Range(selectedLlms)
           /\ \A x \in allModels \ {m} :
                 x \in Range(selectedLlms') <=> x \in Range(selectedLlms)
           /\ (hist.op = "toggleLlm" /\ hist.args = hist'.args) =>
                 Range(selectedLlms') = Range(hist.pre.selectedLlms)
      ]_vars

\* The place of model id m in s (0 when it is not in s).
indexOf(s, m) ==
    IF m \in Range(s) THEN CHOOSE i \in DOMAIN s : s[i] = m ELSE 0

-----------------------------------------------------------------------------
(* Claims about readiness and submission, under Spec (C9: SpecAnyId).       *)

\* C5: ready is true exactly when industry_id, segment_id, use_case_id and
\* deployment_environment are non-empty and at least one model and at least
\* one pack are selected; and, as it depends on the current state only, a
\* step that adds the first pack while the four selections are set and a
\* model is selected takes it from false to true.
C5_Readiness ==
    /\ [](ready <=>
            /\ industryId # ""
            /\ segmentId # ""
            /\ useCaseId # ""
            /\ deploymentEnvironment # ""
            /\ Cardinality(Range(selectedLlms)) >= 1
            /\ Cardinality(keysOf(selectedPacks)) >= 1)
    /\ [][(/\ industryId # "" /\ segmentId # "" /\ useCaseId # ""
           /\ deploymentEnvironment # ""
           /\ Len(selectedLlms) = 1
           /\ keysOf(selectedPacks) = {}
           /\ Cardinality(keysOf(selectedPacks')) = 1
           /\ UNCHANGED <<hierVars, deploymentEnvironment, selectedLlms>>)
          => ~ready /\ ready']_vars

C5_Witness ==
    /\ ready
    /\ Len(selectedLlms) = 1
    /\ Len(selectedPacks) = 1
    /\ EffectsDone

\* C6: a createProject call is started only from a state in which ready is
\* true, and the payload it sends has a non-empty industry_id, segment_id,
\* use_case_id and deployment_environment and at least one entry in
\* selected_llms and in selected_packs.
C6_SubmissionGated ==
    [][Len(calls') > Len(calls) =>
        /\ ready
        /\ LET sent == calls'[Len(calls')]
           IN /\ sent.industry_id # ""
              /\ sent.segment_id # ""
              /\ sent.use_case_id # ""
              /\ sent.deployment_environment # ""
              /\ Len(sent.selected_llms) >= 1
              /\ Len(sent.selected_packs) >= 1
      ]_vars

C6_Witness == calls # <<>> /\ location = "/new"

\* C9: at every level of the hierarchy an id that is not among the current
\* children counts as none once the cascades have run: the level's derived
\* children are empty and readiness is not satisfied.
C9_UnknownIdIsNone ==
    EffectsDone =>
        /\ industryId \notin optionIds(industries) \ {""} =>
              segments = <<>> /\ ~ready
        /\ segmentId \notin optionIds(segments) \ {""} =>
              useCases = <<>> /\ ~ready
        /\ useCaseId \notin optionIds(useCases) \ {""} =>
              useCase = <<>> /\ ~ready

\* This step is the failure of a createProject call.
CreateFailStep == Len(calls') < Len(calls) /\ location' = location

\* C10 as stated: when a createProject call fails, an error message is
\* recorded, no navigation happens, and name, description, the hierarchy
\* ids, Answers, the deployment environment, the selected models and the
\* selected packs are what they were when that call was made (they are the
\* payload of that call).
C10_StateAsWhenCalled ==
    [][CreateFailStep =>
        /\ err' # <<>>
        /\ location' = "/new"
        /\ \E n \in DOMAIN calls :
              calls' = removeAt(calls, n) /\ payload' = calls[n]
      ]_vars

\* C10 amended: when a createProject call fails, an error message is
\* recorded, no navigation happens, and name, description, the hierarchy
\* ids, Answers, the deployment environment, the selected models and the
\* selected packs are what they were just before the failure was handled
\* (the failure changes nothing but the error message, so what the user
\* entered, also while the call was pending, can be submitted again).
C10_FailureKeepsState ==
    [][CreateFailStep =>
        /\ err' # <<>>
        /\ location' = "/new"
        /\ UNCHANGED <<name, description, industryId, segmentId, useCaseId,
                       answers, deploymentEnvironment, selectedLlms,
                       selectedPacks>>
      ]_vars

\* A createProject call has failed and the form is still ready to submit.
C10_Witness ==
    /\ err \in {<<errorText(e)>> : e \in CreateErrors}
    /\ location = "/new"
    /\ ready
    /\ DOMAIN answers # {}

-----------------------------------------------------------------------------
(* Claims about the catalog load, under SpecLoad.                           *)

\* The reasons of the fetches of the last event that rejected.
rejections(args) ==
    {args[n].reason : n \in {m \in 1..2 : args[m].status = "rejected"}}

\* C11: if either of the two catalog fetches fails, also when the other one
\* succeeded, one error message is recorded (the text of one of the
\* failures) and both catalogs keep the value they had before the load, the
\* empty list; the page still takes input; and the catalogs are never left
\* with one loaded and the other not (every response of SpecLoad carries a
\* non-empty catalog).
C11_LoadFailure ==
    /\ (industries = <<>>) <=> (packs = <<>>)
    /\ (hist.op = "loadSettled" /\ rejections(hist.args) # {}) =>
          /\ industries = <<>>
          /\ packs = <<>>
          /\ err \in {<<errorText(e)>> : e \in rejections(hist.args)}
          /\ Idle
          /\ ENABLED HierSetName

\* The industries fetch succeeded, the packs fetch failed, and the user has
\* typed a name afterwards: both catalogs are empty and the error is shown.
C11_Witness ==
    /\ hist.prev.op = "loadSettled"
    /\ hist.prev.args[1].status = "fulfilled"
    /\ hist.prev.args[2].status = "rejected"
    /\ hist.op = "setName"
    /\ industries = <<>>
    /\ packs = <<>>
    /\ err = <<errorText(hist.prev.args[2].reason)>>

-----------------------------------------------------------------------------
(* Claims about the version of a selected pack (SpecPacks) and about the    *)
(* registry under any calls (SpecRegistry).                                 *)

\* This step is a togglePack call for a pack that is not selected.
InsertStep ==
    /\ hist'.tick # hist.tick
    /\ hist'.op = "togglePack"
    /\ packKey(hist'.args[1], hist'.args[2]) \notin keysOf(selectedPacks)

\* C12: when togglePack inserts a pack that was not selected, the stored
\* version is the greatest of the given version strings in code unit order
\* (no given string is above it), and the empty string when no version is
\* given; the version lists of the loaded packs are left as they were.
C12_VersionOnSelection ==
    [][InsertStep =>
        LET k == packKey(hist'.args[1], hist'.args[2])
            versions == hist'.args[3]
        IN /\ k \in keysOf(selectedPacks')
           /\ LET v == entryOf(selectedPacks', k).version
              IN IF versions = <<>> THEN v = <<>>
                 ELSE /\ v \in Range(versions)
                      /\ \A w \in Range(versions) : ~StrLess(v, w)
           /\ packs' = packs
      ]_vars

\* The pack with the versions "9" and "10" has been added: it has "9".
C12_Witness ==
    /\ hist.op = "togglePack"
    /\ hist.args[3] = << <<"9">>, <<"1", "0">> >>
    /\ LET k == packKey(hist.args[1], hist.args[2])
       IN /\ k \notin keysOf(hist.pre.selectedPacks)
          /\ k \in keysOf(selectedPacks)
          /\ entryOf(selectedPacks, k).version = <<"9">>

-----------------------------------------------------------------------------
(* Claims about the payload, under SpecSubmit.                              *)

\* This step starts a createProject call.
CreateStep == Len(calls') > Len(calls)

\* C13: the payload handed to createProject carries the industry_id,
\* segment_id, use_case_id and deployment_environment of the state in which
\* the call is made, the Answers map as it is, the selected model ids in
\* their sequence, the selected packs in the order in which their keys were
\* inserted, and as description the entered text, or null when it is empty.
C13_PayloadAssembly ==
    [][CreateStep =>
        LET sent == calls'[Len(calls')]
        IN /\ sent.industry_id = industryId
           /\ sent.segment_id = segmentId
           /\ sent.use_case_id = useCaseId
           /\ sent.deployment_environment = deploymentEnvironment
           /\ sent.scope_answers = answers
           /\ sent.selected_llms = selectedLlms
           /\ Len(sent.selected_packs) = Len(selectedPacks)
           /\ \A i \in DOMAIN selectedPacks :
                 sent.selected_packs[i] = selectedPacks[i].val
           /\ sent.description =
                 IF description = "" THEN <<>> ELSE <<description>>
      ]_vars

\* A call is pending whose payload has no description and lists two packs,
\* the one the page shows second first.
C13_Witness ==
    \E n \in DOMAIN calls :
        /\ calls[n].description = <<>>
        /\ Len(calls[n].selected_packs) = 2
        /\ calls[n].selected_packs[1].pack_id = packsForDisplay[2].pack_id
        /\ calls[n].selected_packs[2].pack_id = packsForDisplay[1].pack_id
        /\ DOMAIN calls[n].scope_answers # {}

-----------------------------------------------------------------------------
(* The segment cascade, under SpecHier.                                     *)

\* The last event was setSegment with another value than the one selected,
\* and its cascade has run.
AfterSetSegment ==
    /\ EffectsDone
    /\ hist.op = "setSegment"
    /\ hist.args[1] # hist.pre.segmentId

\* C14: setSegment with a new value clears use_case_id, resets Answers to
\* {} and leaves industry_id as it was (segment_id is the new value).
C14_SegmentCascade ==
    AfterSetSegment =>
        /\ useCaseId = ""
        /\ answers = EmptyMap
        /\ industryId = hist.pre.industryId
        /\ segmentId = hist.args[1]

\* Another segment was chosen while a use case was selected and answered.
C14_Witness ==
    /\ AfterSetSegment
    /\ hist.args[1] # ""
    /\ hist.pre.useCaseId # ""
    /\ DOMAIN hist.pre.answers # {}
    /\ useCaseId = ""
    /\ answers = EmptyMap
    /\ industryId # ""

-----------------------------------------------------------------------------
(* The registry under any calls, under SpecRegistry.                        *)

\* C15: in every state reached by togglePack and setPackVersion calls, no
\* two entries of the Pack Registry have the same key or the same (domain,
\* pack_id), and every entry is stored under the key domain + "/" + pack_id
\* of its own domain and pack_id.
C15_KeyUniqueness ==
    /\ \A i, j \in DOMAIN selectedPacks :
          \/ i = j
          \/ /\ selectedPacks[i].key # selectedPacks[j].key
             /\ <<selectedPacks[i].val.domain, selectedPacks[i].val.pack_id>>
                   # <<selectedPacks[j].val.domain, selectedPacks[j].val.pack_id>>
    /\ \A i \in DOMAIN selectedPacks :
          selectedPacks[i].key
              = selectedPacks[i].val.domain \o <<"/">> \o selectedPacks[i].val.pack_id

\* setPackVersion has been called for a selected pack while another pack is
\* selected as well.
C15_Witness ==
    /\ hist.op = "setPackVersion"
    /\ packKey(hist.args[1], hist.args[2]) \in keysOf(hist.pre.selectedPacks)
    /\ Len(selectedPacks) = 2
    /\ entryOf(selectedPacks, packKey(hist.args[1], hist.args[2])).version
          = hist.args[3]

\* The keys of reg in their order.
keySeq(reg) == [i \in DOMAIN reg |-> reg[i].key]

\* C17: a setPackVersion call, for a pack that is selected or not and a
\* version that is in its list or not, leaves the set of selected keys and
\* their order in selected() as they were and leaves the version of every
\* other key unchanged; the key of the call, when selected, then has the
\* given version.
C17_VersionOnly ==
    [][(hist'.tick # hist.tick /\ hist'.op = "setPackVersion") =>
        LET k == packKey(hist'.args[1], hist'.args[2])
        IN /\ keySeq(selectedPacks') = keySeq(selectedPacks)
           /\ \A x \in keysOf(selectedPacks) \ {k} :
                 entryOf(selectedPacks', x) = entryOf(selectedPacks, x)
           /\ k \in keysOf(selectedPacks) =>
                 entryOf(selectedPacks', k).version = hist'.args[3]
      ]_vars

-----------------------------------------------------------------------------
(* The pack list, under SpecSort.                                           *)

\* How often x occurs in s.
occurrences(s, x) == Cardinality({i \in DOMAIN s : s[i] = x})

\* Pack a may stand before pack b: its domain is lower, or the domains are
\* the same and its order (9999 when it has none) is lower, or these are
\* the same too and its name (its pack_id when it has no name) is not above.
mayPrecede(a, b) ==
    LET orderOf(x) == IF "order" \in DOMAIN x THEN x.order ELSE 9999
        labelOf(x) ==
            IF "name" \in DOMAIN x /\ x.name # <<>> THEN x.name ELSE x.pack_id
    IN \/ localeLess(a.domain, b.domain)
       \/ a.domain = b.domain /\ orderOf(a) < orderOf(b)
       \/ /\ a.domain = b.domain
          /\ orderOf(a) = orderOf(b)
          /\ ~localeLess(labelOf(b), labelOf(a))

\* The places of packsForDisplay that the domain filter keeps.
keptPlaces ==
    {i \in DOMAIN packsForDisplay :
        packDomainFilter = All \/ packsForDisplay[i].domain = packDomainFilter}

\* C16: the display list is a permutation of the loaded pack list in
\* ascending order of domain, then of order (9999 when missing), then of
\* name (pack_id when the name is absent); the loaded list is the list the
\* load delivered and is never reordered; and the filtered list is the
\* display list's subsequence, in its order, of the packs whose domain is
\* the selector (all of it for all).
C16_PackSort ==
    /\ [](/\ Len(packsForDisplay) = Len(packs)
          /\ \A x \in Range(packs) :
                occurrences(packsForDisplay, x) = occurrences(packs, x)
          /\ \A i, j \in DOMAIN packsForDisplay :
                i < j => mayPrecede(packsForDisplay[i], packsForDisplay[j])
          /\ Len(filteredPacksForDisplay) = Cardinality(keptPlaces)
          /\ \A n \in DOMAIN filteredPacksForDisplay :
                \E i \in keptPlaces :
                    /\ Cardinality({j \in keptPlaces : j <= i}) = n
                    /\ filteredPacksForDisplay[n] = packsForDisplay[i])
    /\ [][/\ (loadPending /\ ~loadPending') => packs' = hist'.args[1]
          /\ ~loadPending => packs' = packs]_vars

\* The list of the sort example is loaded: it is shown as C (governance),
\* A (safety, order 1), B (safety, order 2), and the safety filter shows A, B.
C16_Witness ==
    /\ packs = FullPacks
    /\ packsForDisplay = <<FullPacks[3], FullPacks[2], FullPacks[1]>>
    /\ packDomainFilter = Safety
    /\ filteredPacksForDisplay = <<FullPacks[2], FullPacks[1]>>

-----------------------------------------------------------------------------
(* The hierarchy and readiness (SpecReady), calls in flight (Spec).         *)

\* segment_id is a child of the selected industry and use_case_id a child
\* of the selected segment, and no level is selected under an unselected
\* one.
hierarchyConsistent ==
    /\ segmentId # "" => industryId # ""
    /\ useCaseId # "" => segmentId # ""
    /\ segmentId # "" => FindById(segments, segmentId) # <<>>
    /\ useCaseId # "" => FindById(useCases, useCaseId) # <<>>

\* C18: in every reachable state in which ready is true, also in
\* the states between a setter and the cascade effect it triggers, the
\* selected segment is a child of the selected industry and the selected
\* use case a child of the selected segment.
C18_ConsistentWheneverReady == ready => hierarchyConsistent

\* C19: at most one createProject call is unresolved at any time.
C19_OneCallInFlight == Len(calls) <= 1

\* This step changes the industry, the segment or the use case, or runs the
\* cascade effects.
HierarchyStep ==
    \/ <<industryId, segmentId, useCaseId>>' # <<industryId, segmentId, useCaseId>>
    \/ effectDeps' # effectDeps

\* C20: a change of the industry, the segment or the use case, and every
\* cascade it triggers, leaves the selected packs, the selected models, the
\* deployment environment, the name and the description as they are; the
\* cascade writes segment_id, use_case_id and Answers only.
C20_CascadeFrame ==
    [][HierarchyStep =>
        /\ UNCHANGED <<selectedPacks, selectedLlms, deploymentEnvironment,
                       name, description>>
        /\ effectDeps' # effectDeps => industryId' = industryId
      ]_vars

\* The cascade of an industry change has run in a state with a pack, a
\* model, a deployment environment and a description.
C20_Witness ==
    /\ EffectsDone
    /\ industryId = "health"
    /\ segmentId = ""
    /\ selectedPacks # <<>>
    /\ selectedLlms # <<>>
    /\ deploymentEnvironment # ""
    /\ description # ""

=============================================================================
